---- MODULE Spec2Model ----
(***************************************************************************)
(* A model of the mophoto image service (src/index.js): the Download Gate  *)
(* (GET /api/download/:file), the Upload Pipeline (POST /api/upload and    *)
(* POST /api/admin/upload behind the multer middleware) and the Listing    *)
(* Service (GET /api/imgs).                                                *)
(*                                                                         *)
(* Three specifications share the variables:                               *)
(*   SpecGate / SpecGateFair  the download gate over a fixed Image Store   *)
(*   SpecUpload               one upload request at a time, step by step   *)
(*   SpecListing              the listing handler applied to a directory   *)
(*                                                                         *)
(* The libraries the source calls are modelled by what they do with the    *)
(* arguments the source gives them: multer (parts handled in arrival       *)
(* order, limits.files, maxCount, fileFilter, removal of the stored files  *)
(* on abort), Express (next(err) without error middleware answers 500),    *)
(* parseInt, Array.prototype.sort and Array.prototype.slice.               *)
(***************************************************************************)
EXTENDS Integers, Sequences, FiniteSets, TLC

VARIABLES
  activeDownloads,  \* src/index.js:25  the admission counter
  streams,          \* res.download calls whose completion callback is pending
  dresp,            \* the last answer of the download handler
  lastDone,         \* how the last stream ended: "none" | "ok" | "err"
  gateHist,         \* history: "none" | "freed" | "readmitted"
  imgs,             \* the Image Store: filename -> content, "none" when absent
  previews,         \* the Preview Store: filename -> content it was made from
  secret,           \* whether process.env.UPLOAD_SECRET is set
  up,               \* the upload request in flight
  imgs0,            \* history: the Image Store when the request arrived
  previews0,        \* history: the Preview Store when the request arrived
  dir,              \* the directory as fs.readdir and fs.statSync report it
  lresp             \* the answer of the listing handler

vars == <<activeDownloads, streams, dresp, lastDone, gateHist, imgs, previews,
          secret, up, imgs0, previews0, dir, lresp>>

gateVars == <<activeDownloads, streams, dresp, lastDone, gateHist>>
storeVars == <<imgs, previews>>
uploadVars == <<secret, up, imgs0, previews0>>
listVars == <<dir, lresp>>

(***************************************************************************)
(* Program constants                                                       *)
(***************************************************************************)
MAX_DOWNLOADS == 200
\* parseInt(req.query.page) || 1 and parseInt(req.query.limit) || 10
DefaultPage == 1
DefaultLimit == 10
\* limits: { files: 5 } of the one multer instance both upload routes share
LimitsFiles == 5
\* upload.array('images', 5) and upload.array('images', 10)
PublicMaxCount == 5
AdminMaxCount == 10
\* Express's final handler answers an error handed to next(err) that carries
\* no status with 500; the application registers no error middleware.
DefaultErrorStatus == 500

(***************************************************************************)
(* Bounds of the model                                                     *)
(***************************************************************************)
\* the longest batch whose files are chosen freely
MaxRichLen == 2
\* the longest batch of image files (for the count limits)
MaxBatch == 11
\* the most entries of the image directory
MaxDirLen == 4
\* the longest query-string value
MaxQueryLen == 2

(***************************************************************************)
(* The stores                                                              *)
(***************************************************************************)
Names == {"a", "b"}
Contents == {"X", "Y"}
None == "none"

EmptyStore == [n \in Names |-> None]

\* fs.existsSync(path.join(imgsFolder, fileName))
ExistsSync(f) == imgs[f] # None

Max(x, y) == IF x >= y THEN x ELSE y

(***************************************************************************)
(* Download Gate                                                           *)
(***************************************************************************)
NoDownloadResp == [file |-> "-", status |-> 0, statted |-> FALSE]

AtCeiling_Strict(n) == n > MAX_DOWNLOADS

\* if (activeDownloads >= MAX_DOWNLOADS)
AtCeiling(n) == n >= MAX_DOWNLOADS

DownloadRequest_StatFirst(f) ==
  /\ IF ~ExistsSync(f)
     THEN /\ dresp' = [file |-> f, status |-> 404, statted |-> TRUE]
          /\ UNCHANGED <<activeDownloads, streams, gateHist>>
     ELSE IF AtCeiling(activeDownloads)
     THEN /\ dresp' = [file |-> f, status |-> 429, statted |-> TRUE]
          /\ UNCHANGED <<activeDownloads, streams, gateHist>>
     ELSE /\ activeDownloads' = activeDownloads + 1
          /\ streams' = streams + 1
          /\ dresp' = [file |-> f, status |-> 200, statted |-> TRUE]
          /\ gateHist' = IF gateHist = "freed" THEN "readmitted" ELSE "none"
  /\ UNCHANGED <<lastDone, storeVars, uploadVars, listVars>>

DownloadRequest_CountFirst(f) ==
  /\ IF AtCeiling(activeDownloads)
     THEN /\ dresp' = [file |-> f, status |-> 429, statted |-> FALSE]
          /\ UNCHANGED <<activeDownloads, streams, gateHist>>
     ELSE IF ~ExistsSync(f)
     THEN /\ activeDownloads' = activeDownloads + 1
          /\ dresp' = [file |-> f, status |-> 404, statted |-> TRUE]
          /\ UNCHANGED <<streams, gateHist>>
     ELSE /\ activeDownloads' = activeDownloads + 1
          /\ streams' = streams + 1
          /\ dresp' = [file |-> f, status |-> 200, statted |-> TRUE]
          /\ gateHist' = IF gateHist = "freed" THEN "readmitted" ELSE "none"
  /\ UNCHANGED <<lastDone, storeVars, uploadVars, listVars>>

\* app.get('/api/download/:file'): the handler has no await, so it runs to
\* its return (or to the res.download call) in one step of the event loop.
DownloadRequest(f) ==
  /\ IF AtCeiling(activeDownloads)
     THEN /\ dresp' = [file |-> f, status |-> 429, statted |-> FALSE]
          /\ UNCHANGED <<activeDownloads, streams, gateHist>>
     ELSE IF ~ExistsSync(f)
     THEN /\ dresp' = [file |-> f, status |-> 404, statted |-> TRUE]
          /\ UNCHANGED <<activeDownloads, streams, gateHist>>
     ELSE /\ activeDownloads' = activeDownloads + 1
          /\ streams' = streams + 1
          /\ dresp' = [file |-> f, status |-> 200, statted |-> TRUE]
          /\ gateHist' = IF gateHist = "freed" THEN "readmitted" ELSE "none"
  /\ UNCHANGED <<lastDone, storeVars, uploadVars, listVars>>

DownloadComplete_LeakOnError(err) ==
  /\ streams > 0
  /\ activeDownloads' = IF err THEN activeDownloads
                        ELSE Max(0, activeDownloads - 1)
  /\ streams' = streams - 1
  /\ lastDone' = IF err THEN "err" ELSE "ok"
  /\ gateHist' = IF streams = MAX_DOWNLOADS THEN "freed" ELSE "none"
  /\ UNCHANGED <<dresp, storeVars, uploadVars, listVars>>

\* The callback given to res.download: it fires once per started stream,
\* with err set when the transfer failed or the client went away.
DownloadComplete(err) ==
  /\ streams > 0
  /\ activeDownloads' = Max(0, activeDownloads - 1)
  /\ streams' = streams - 1
  /\ lastDone' = IF err THEN "err" ELSE "ok"
  /\ gateHist' = IF streams = MAX_DOWNLOADS THEN "freed" ELSE "none"
  /\ UNCHANGED <<dresp, storeVars, uploadVars, listVars>>

AnyDownloadRequest == \E f \in Names : DownloadRequest(f)
AnyDownloadComplete == \E err \in BOOLEAN : DownloadComplete(err)

(***************************************************************************)
(* Upload Pipeline.  A request is a list of file parts, each with the      *)
(* filename, the content and the content type the client declares.  The    *)
(* multer middleware of the route runs first and handles the parts in      *)
(* arrival order, one per step; the route's handler runs after the last    *)
(* part, and is suspended at each await of createPreview.  One upload      *)
(* request is in flight at a time.  File sizes are not modelled.           *)
(***************************************************************************)
ImageType == <<"image", "jpeg">>
TextType == <<"text", "plain">>

\* Image files: "a" with either content, "b" with one
ImageFiles ==
  {f \in [name : Names, content : Contents, mime : {ImageType}] :
     f.name = "a" \/ f.content = "X"}
TextFile == [name |-> "b", content |-> "T", mime |-> TextType]
Files == ImageFiles \cup {TextFile}

RichBatches == UNION {[1..k -> Files] : k \in 0..MaxRichLen}
UniformBatch(k) ==
  [i \in 1..k |-> [name |-> IF i % 2 = 1 THEN "a" ELSE "b",
                   content |-> "X", mime |-> ImageType]]
LongBatches == {UniformBatch(k) : k \in (MaxRichLen + 1)..MaxBatch}
Batches == RichBatches \cup LongBatches

\* process.env.UPLOAD_SECRET: unset, or set
Secrets == {"", "s3cret"}
\* req.headers.authorization: absent, or `Bearer <token>`
NoHeader == <<>>
Headers == {NoHeader, <<"Bearer", "s3cret">>, <<"Bearer", "wrong">>}
Endpoints == {"public", "admin"}

IdleUpload ==
  [phase |-> "idle", ep |-> "-", auth |-> NoHeader, batch |-> <<>>,
   next |-> 1, uploaded |-> <<>>, error |-> "", results |-> <<>>,
   started |-> 0, failed |-> FALSE, status |-> 0]

\* fileFilter: file.mimetype.startsWith('image/')
FileFilterAccepts(file) == file.mime[1] = "image"

\* diskStorage filename: cb(null, file.originalname)
StoredName(file) == file.name

WriteFile_KeepExisting(store, file) ==
  IF store[StoredName(file)] = None
  THEN [store EXCEPT ![StoredName(file)] = file.content]
  ELSE store

\* diskStorage _handleFile: the part is streamed to
\* path.join(imgsFolder, file.originalname), replacing what is there.
WriteFile(store, file) == [store EXCEPT ![StoredName(file)] = file.content]

\* diskStorage _removeFile (fs.unlink) of every file multer had stored for
\* the request, when it aborts the request
RemoveUploaded(store, uploaded) ==
  [n \in Names |->
     IF \E i \in 1..Len(uploaded) : StoredName(uploaded[i]) = n
     THEN None ELSE store[n]]

\* The second argument of upload.array
MaxCount(ep) == IF ep = "public" THEN PublicMaxCount ELSE AdminMaxCount

\* What multer makes of the part at position pos (1-based), in its order:
\* busboy gives up on file parts beyond limits.files (LIMIT_FILE_COUNT),
\* upload.array refuses a part beyond its maxCount (LIMIT_UNEXPECTED_FILE),
\* then the fileFilter looks at the content type.
PartError(ep, pos, file) ==
  IF pos - 1 >= LimitsFiles THEN "LIMIT_FILE_COUNT"
  ELSE IF MaxCount(ep) - (pos - 1) <= 0 THEN "LIMIT_UNEXPECTED_FILE"
  ELSE IF ~FileFilterAccepts(file) THEN "Only image files are allowed"
  ELSE ""

\* A multipart request reaches one of the two upload routes.
UploadArrive(ep, hdr, batch) ==
  /\ up.phase = "idle"
  /\ up' = [IdleUpload EXCEPT !.phase = "multer", !.ep = ep, !.auth = hdr,
                              !.batch = batch]
  /\ imgs0' = imgs
  /\ previews0' = previews
  /\ UNCHANGED <<secret, gateVars, storeVars, listVars>>

\* multer handles the next part.  A part that passes is written to the
\* Image Store.  The first error aborts the request: with nothing stored yet
\* the error goes to next(err) at once, otherwise multer first removes what
\* it stored (MulterAbort), and parts that arrive until then are still
\* handled.
MulterFile ==
  /\ up.phase \in {"multer", "aborting"}
  /\ up.next <= Len(up.batch)
  /\ LET file == up.batch[up.next]
         err == PartError(up.ep, up.next, file)
     IN IF err = ""
        THEN /\ imgs' = WriteFile(imgs, file)
             /\ up' = [up EXCEPT !.next = @ + 1,
                                 !.uploaded = Append(@, file)]
        ELSE /\ imgs' = imgs
             /\ up' = IF up.phase = "aborting"
                      THEN [up EXCEPT !.next = @ + 1]
                      ELSE IF up.uploaded = <<>>
                      THEN [up EXCEPT !.next = @ + 1, !.error = err,
                                      !.phase = "done",
                                      !.status = DefaultErrorStatus]
                      ELSE [up EXCEPT !.next = @ + 1, !.error = err,
                                      !.phase = "aborting"]
  /\ UNCHANGED <<previews, secret, imgs0, previews0, gateVars, listVars>>

\* multer's abortWithError, once the pending writes are done: unlink every
\* file stored for the request, then next(err).  (A part that multer stores
\* while the unlinks are already under way is not modelled.)
MulterAbort ==
  /\ up.phase = "aborting"
  /\ imgs' = RemoveUploaded(imgs, up.uploaded)
  /\ up' = [up EXCEPT !.phase = "done", !.status = DefaultErrorStatus]
  /\ UNCHANGED <<previews, secret, imgs0, previews0, gateVars, listVars>>

\* authHeader !== `Bearer ${process.env.UPLOAD_SECRET}`, on /api/upload only
AuthRejects(ep, hdr) ==
  /\ ep = "public"
  /\ secret # ""
  /\ hdr # <<"Bearer", secret>>

CreatePreviewThrows_Rethrow(ok) == ~ok

\* createPreview catches what sharp throws: nothing reaches the caller.
CreatePreviewThrows(ok) == FALSE

\* createPreview(fileName): sharp reads the stored original and writes the
\* preview under the same name; when it fails no preview is written.
CreatePreview(pv, fileName, ok) ==
  IF ok THEN [pv EXCEPT ![fileName] = imgs[fileName]] ELSE pv

\* multer calls next() after the last part: the handler runs up to its first
\* await (401, 400, or the first createPreview call).
HandlerEnter ==
  /\ up.phase = "multer"
  /\ up.next > Len(up.batch)
  /\ up' = IF AuthRejects(up.ep, up.auth)
           THEN [up EXCEPT !.phase = "done", !.status = 401]
           ELSE IF Len(up.uploaded) = 0
           THEN [up EXCEPT !.phase = "done", !.status = 400]
           ELSE [up EXCEPT !.phase = "preview", !.started = 1]
  /\ UNCHANGED <<secret, imgs0, previews0, storeVars, gateVars, listVars>>

\* The awaited createPreview settles (ok: sharp succeeded): the handler
\* pushes the file's outcome and either calls createPreview for the next
\* file or answers with res.json (status 200).
PreviewEnd(ok) ==
  /\ up.phase = "preview"
  /\ LET i == Len(up.results) + 1
         file == up.uploaded[i]
         last == i = Len(up.uploaded)
         outcome == [filename |-> file.name,
                     status |-> IF CreatePreviewThrows(ok)
                                THEN "error" ELSE "success"]
     IN /\ previews' = CreatePreview(previews, file.name, ok)
        /\ up' = [up EXCEPT !.results = Append(@, outcome),
                            !.failed = @ \/ ~ok,
                            !.started = IF last THEN @ ELSE @ + 1,
                            !.phase = IF last THEN "done" ELSE "preview",
                            !.status = IF last THEN 200 ELSE 0]
  /\ UNCHANGED <<imgs, secret, imgs0, previews0, gateVars, listVars>>

\* The answer has been sent; the request is over.
UploadClose ==
  /\ up.phase = "done"
  /\ up' = IdleUpload
  /\ imgs0' = imgs
  /\ previews0' = previews
  /\ UNCHANGED <<secret, storeVars, gateVars, listVars>>

(***************************************************************************)
(* Listing Service.  A query value is the string the client sent, a        *)
(* sequence of characters (the empty one also stands for an absent         *)
(* parameter: parseInt gives NaN for both).  A directory entry is a file   *)
(* name, split into stem and extension, with its modification time.        *)
(***************************************************************************)
QueryChars == {"-", "0", "1", "2", "a"}
QueryValues == UNION {[1..k -> QueryChars] : k \in 0..MaxQueryLen}

Digits == {"0", "1", "2", "3", "4", "5", "6", "7", "8", "9"}
DigitValue(c) ==
  CASE c = "0" -> 0 [] c = "1" -> 1 [] c = "2" -> 2 [] c = "3" -> 3
    [] c = "4" -> 4 [] c = "5" -> 5 [] c = "6" -> 6 [] c = "7" -> 7
    [] c = "8" -> 8 [] c = "9" -> 9

NaN == [nan |-> TRUE, n |-> 0]

\* The longest run of decimal digits of s from position i on
RECURSIVE ScanDigits(_, _, _, _)
ScanDigits(s, i, acc, any) ==
  IF i <= Len(s) /\ s[i] \in Digits
  THEN ScanDigits(s, i + 1, 10 * acc + DigitValue(s[i]), TRUE)
  ELSE [any |-> any, n |-> acc]

\* parseInt(string): an optional sign, then the leading decimal digits; NaN
\* when there is none.  What follows the digits is ignored.
ParseInt(s) ==
  LET signed == Len(s) >= 1 /\ s[1] \in {"-", "+"}
      r == ScanDigits(s, IF signed THEN 2 ELSE 1, 0, FALSE)
  IN IF ~r.any THEN NaN
     ELSE [nan |-> FALSE, n |-> IF signed /\ s[1] = "-" THEN 0 - r.n ELSE r.n]

\* parseInt(x) || dflt: NaN and 0 are falsy
OrDefault(r, dflt) == IF r.nan \/ r.n = 0 THEN dflt ELSE r.n

Exts == {"jpg", "PNG", "txt"}
ToLower(e) == IF e = "PNG" THEN "png" ELSE e

\* /\.(jpg|jpeg|png|webp)$/i.test(file)
IsImageName(file) == ToLower(file.ext) \in {"jpg", "jpeg", "png", "webp"}

Times == 1..2
Entries == [file : [stem : 1..MaxDirLen, ext : Exts], time : Times]
\* Directories of distinct names: the entry at position i has stem i
Dirs ==
  UNION {{d \in [1..k -> Entries] : \A i \in 1..k : d[i].file.stem = i} :
           k \in 0..MaxDirLen}

\* Array.prototype.sort with (a, b) => b.time - a.time is stable: an item
\* goes behind every item that is as new or newer.
RECURSIVE InsertByTime(_, _)
InsertByTime(sorted, item) ==
  IF sorted = <<>> THEN <<item>>
  ELSE IF Head(sorted).time >= item.time
  THEN <<Head(sorted)>> \o InsertByTime(Tail(sorted), item)
  ELSE <<item>> \o sorted

RECURSIVE SortByTimeDesc(_)
SortByTimeDesc(items) ==
  IF items = <<>> THEN <<>>
  ELSE InsertByTime(SortByTimeDesc(SubSeq(items, 1, Len(items) - 1)),
                    items[Len(items)])

\* files.filter(...).map(stat).sort(...).map(item => item.file)
SortedFiles(d) ==
  LET imageFiles == SelectSeq(d, LAMBDA e : IsImageName(e.file))
      sorted == SortByTimeDesc(imageFiles)
  IN [i \in 1..Len(sorted) |-> sorted[i].file]

Min(x, y) == IF x <= y THEN x ELSE y

\* Array.prototype.slice(start, end): a negative index counts from the end
Slice(s, start, end) ==
  LET n == Len(s)
      from == IF start < 0 THEN Max(n + start, 0) ELSE Min(start, n)
      to == IF end < 0 THEN Max(n + end, 0) ELSE Min(end, n)
  IN SubSeq(s, from + 1, to)

\* Math.ceil(n / d) for n >= 0 and d # 0
Ceil(n, d) ==
  IF d > 0 THEN (n + d - 1) \div d ELSE 0 - (n \div (0 - d))

NoListing == [status |-> 0, currentPage |-> 0, totalPages |-> 0,
              totalImages |-> 0, pageSize |-> 0, images |-> <<>>]

\* app.get('/api/imgs') when fs.readdir succeeds, applied once to the
\* directory
ListImages(pageText, limitText) ==
  /\ lresp.status = 0
  /\ LET page == OrDefault(ParseInt(pageText), DefaultPage)
         limit == OrDefault(ParseInt(limitText), DefaultLimit)
         sortedFiles == SortedFiles(dir)
         totalImages == Len(sortedFiles)
         startIndex == (page - 1) * limit
     IN lresp' =
          [status |-> 200,
           currentPage |-> page,
           totalPages |-> Ceil(totalImages, limit),
           totalImages |-> totalImages,
           pageSize |-> limit,
           images |-> Slice(sortedFiles, startIndex, startIndex + limit)]
  /\ UNCHANGED <<dir, gateVars, storeVars, uploadVars>>

\* app.get('/api/imgs') when fs.readdir reports an error
ListImagesReadError ==
  /\ lresp.status = 0
  /\ lresp' = [NoListing EXCEPT !.status = 500]
  /\ UNCHANGED <<dir, gateVars, storeVars, uploadVars>>

AnyListImages ==
  \E pageText \in QueryValues, limitText \in QueryValues :
    ListImages(pageText, limitText)

AnyUploadArrive ==
  \E ep \in Endpoints, hdr \in Headers, batch \in Batches :
    UploadArrive(ep, hdr, batch)
AnyPreviewEnd == \E ok \in BOOLEAN : PreviewEnd(ok)

InitUpload ==
  /\ activeDownloads = 0
  /\ streams = 0
  /\ dresp = NoDownloadResp
  /\ lastDone = "none"
  /\ gateHist = "none"
  /\ imgs = EmptyStore
  /\ previews = EmptyStore
  /\ secret \in Secrets
  /\ up = IdleUpload
  /\ imgs0 = imgs
  /\ previews0 = previews
  /\ dir = <<>>
  /\ lresp = NoListing

NextUpload ==
  \/ AnyUploadArrive
  \/ MulterFile
  \/ MulterAbort
  \/ HandlerEnter
  \/ AnyPreviewEnd
  \/ UploadClose

SpecUpload == InitUpload /\ [][NextUpload]_vars

(***************************************************************************)
(* The download gate on its own, over any Image Store                      *)
(***************************************************************************)
InitGate ==
  /\ activeDownloads = 0
  /\ streams = 0
  /\ dresp = NoDownloadResp
  /\ lastDone = "none"
  /\ gateHist = "none"
  /\ imgs \in [Names -> {None, "X"}]
  /\ previews = imgs
  /\ secret = ""
  /\ up = IdleUpload
  /\ imgs0 = imgs
  /\ previews0 = previews
  /\ dir = <<>>
  /\ lresp = NoListing

NextGate ==
  \/ AnyDownloadRequest
  \/ AnyDownloadComplete

SpecGate == InitGate /\ [][NextGate]_vars

\* Every started stream eventually signals completion or error.
SpecGateFair == SpecGate /\ WF_vars(AnyDownloadComplete)

InitListing ==
  /\ activeDownloads = 0
  /\ streams = 0
  /\ dresp = NoDownloadResp
  /\ lastDone = "none"
  /\ gateHist = "none"
  /\ imgs = EmptyStore
  /\ previews = EmptyStore
  /\ secret = ""
  /\ up = IdleUpload
  /\ imgs0 = imgs
  /\ previews0 = previews
  /\ dir \in Dirs
  /\ lresp = NoListing

NextListing ==
  \/ AnyListImages
  \/ ListImagesReadError

SpecListing == InitListing /\ [][NextListing]_vars

(***************************************************************************)
(* C1: in every reachable state 0 <= activeDownloads <= MAX_DOWNLOADS.     *)
(***************************************************************************)
C1_CounterBound ==
  /\ activeDownloads >= 0
  /\ activeDownloads <= MAX_DOWNLOADS

\* The gate is full and a further request has just been turned away.
C1_Witness ==
  /\ activeDownloads = MAX_DOWNLOADS
  /\ streams = MAX_DOWNLOADS
  /\ dresp.status = 429

(***************************************************************************)
(* C2: with MAX_DOWNLOADS streams in flight every further download request *)
(* is answered 429 at once, without touching the counter or the file       *)
(* system; after one stream completes at the ceiling, the next request for *)
(* an existing file is admitted and fills the gate again, and the request  *)
(* after that is answered 429.                                             *)
(***************************************************************************)
C2_Admission ==
  [][ \A f \in Names :
        DownloadRequest(f) =>
          /\ (streams >= MAX_DOWNLOADS =>
                /\ dresp'.status = 429
                /\ ~dresp'.statted
                /\ activeDownloads' = activeDownloads
                /\ streams' = streams)
          /\ (gateHist = "freed" /\ ExistsSync(f) =>
                /\ dresp'.status = 200
                /\ streams' = MAX_DOWNLOADS)
          /\ (gateHist = "readmitted" =>
                /\ dresp'.status = 429
                /\ streams' = streams) ]_vars

\* One stream completed at the ceiling, one request was admitted in its
\* place, and the request after that has been answered 429.
C2_Witness ==
  /\ gateHist = "readmitted"
  /\ streams = MAX_DOWNLOADS
  /\ dresp.status = 429
  /\ ~dresp.statted

(***************************************************************************)
(* C3 as claimed: for every value of activeDownloads, the ceiling          *)
(* included, a download request for a file that is not in the Image Store  *)
(* is answered 404 and leaves activeDownloads unchanged.                   *)
(***************************************************************************)
C3_Original ==
  [][ \A f \in Names :
        DownloadRequest(f) /\ ~ExistsSync(f) =>
          /\ dresp'.status = 404
          /\ activeDownloads' = activeDownloads ]_vars

(***************************************************************************)
(* C3 as amended: a download request for a file that is not in the Image   *)
(* Store leaves activeDownloads unchanged; it is answered 404 while        *)
(* activeDownloads is below MAX_DOWNLOADS and 429 at the ceiling, where    *)
(* the ceiling check answers before the existence check runs.              *)
(***************************************************************************)
C3_NotFound ==
  [][ \A f \in Names :
        DownloadRequest(f) /\ ~ExistsSync(f) =>
          /\ activeDownloads' = activeDownloads
          /\ streams' = streams
          /\ dresp'.status = IF activeDownloads < MAX_DOWNLOADS THEN 404 ELSE 429
     ]_vars

\* A missing file was asked for, and answered 404, while streams were in flight.
C3_Witness ==
  /\ dresp.status = 404
  /\ ~ExistsSync(dresp.file)
  /\ activeDownloads > 0
  /\ activeDownloads = streams

(***************************************************************************)
(* C10: activeDownloads always equals the number of admitted downloads     *)
(* whose completion callback has not fired; each completion, success or    *)
(* error, takes exactly one off (the clamp at 0 never acts); a 429 or 404  *)
(* answer leaves the counter alone; and, every stream completing           *)
(* eventually, once requests stop arriving the counter returns to 0 and    *)
(* stays there.                                                            *)
(***************************************************************************)
C10_Accounting ==
  /\ [](activeDownloads = streams)
  /\ [][ \A err \in BOOLEAN :
           DownloadComplete(err) => activeDownloads' = activeDownloads - 1 ]_vars
  /\ [][ \A f \in Names :
           DownloadRequest(f) =>
             activeDownloads' =
               IF dresp'.status = 200 THEN activeDownloads + 1
               ELSE activeDownloads ]_vars
  /\ (<>[][~AnyDownloadRequest]_vars => <>[](activeDownloads = 0))

\* A stream that ended in error has given its slot back.
C10_Witness ==
  /\ lastDone = "err"
  /\ dresp.status = 200
  /\ activeDownloads = 0
  /\ streams = 0

(***************************************************************************)
(* The upload claims speak of the request that has just been answered      *)
(* (up.phase = "done"), of the batch it carried and of the stores as they  *)
(* were when it arrived (imgs0, previews0).                                *)
(***************************************************************************)
Answered == up.phase = "done"
HasNonImage(batch) == \E i \in 1..Len(batch) : batch[i].mime[1] # "image"
HeaderMatches == up.auth = <<"Bearer", secret>>
GateApplies == up.ep = "public" /\ secret # ""
LastContent(batch, n, before) ==
  LET at == {i \in 1..Len(batch) : batch[i].name = n}
  IN IF at = {} THEN before
     ELSE batch[CHOOSE i \in at : \A j \in at : j <= i].content

(***************************************************************************)
(* C4: an upload batch, on either endpoint, that holds a file whose        *)
(* declared content type does not start with image/ is rejected as a       *)
(* whole, and the Image Store and the Preview Store are the same after the *)
(* request as before it.                                                   *)
(***************************************************************************)
C4_NonImageLeavesStore ==
  Answered /\ HasNonImage(up.batch) =>
    /\ up.status # 200
    /\ up.results = <<>>
    /\ imgs = imgs0
    /\ previews = previews0

(***************************************************************************)
(* C5: a batch of n >= 1 files that the middleware and the secret check    *)
(* let through is answered 200 with exactly n outcomes, in arrival order,  *)
(* every one with status success whether or not its preview could be made; *)
(* at most one createPreview is in progress at a time, each started only   *)
(* when the one before has been recorded.                                  *)
(***************************************************************************)
C5_OutcomeReport ==
  /\ up.started - Len(up.results) \in {0, 1}
  /\ up.phase = "preview" => up.started = Len(up.results) + 1
  /\ \A i \in 1..Len(up.results) :
       /\ i <= Len(up.batch)
       /\ up.results[i].filename = up.batch[i].name
       /\ up.results[i].status = "success"
  /\ ( /\ Answered
       /\ up.error = ""
       /\ Len(up.batch) >= 1
       /\ (GateApplies => HeaderMatches)
       => /\ up.status = 200
          /\ Len(up.results) = Len(up.batch) )

\* A batch of two or more files was answered 200 although a preview failed.
C5_Witness ==
  /\ Answered
  /\ up.status = 200
  /\ up.failed
  /\ Len(up.results) >= 2
  /\ Len(up.results) = Len(up.batch)

(***************************************************************************)
(* C6: a batch of k image files is accepted (200) by POST /api/upload for  *)
(* 1 <= k <= 5 and by POST /api/admin/upload for 1 <= k <= 10; a larger    *)
(* batch fails with a client (4xx) error.                                  *)
(***************************************************************************)
C6_CountLimits ==
  /\ Answered
  /\ ~HasNonImage(up.batch)
  /\ Len(up.batch) >= 1
  /\ (GateApplies => HeaderMatches)
  => IF Len(up.batch) <= (IF up.ep = "public" THEN 5 ELSE 10)
     THEN up.status = 200
     ELSE up.status \in 400..499

(***************************************************************************)
(* C8: with UPLOAD_SECRET set, a POST /api/upload whose Authorization      *)
(* header is not `Bearer <UPLOAD_SECRET>` is answered 401 and leaves the   *)
(* Image Store and the Preview Store unchanged.                            *)
(***************************************************************************)
C8_AuthGate ==
  /\ Answered
  /\ GateApplies
  /\ ~HeaderMatches
  /\ up.error = ""
  => /\ up.status = 401
     /\ imgs = imgs0
     /\ previews = previews0

(***************************************************************************)
(* C9: after an accepted upload every filename of the batch holds the      *)
(* content of the last file of the batch with that name, whatever the      *)
(* store held under that name before, and every other filename holds what  *)
(* it held before: one record per filename, the last write.                *)
(***************************************************************************)
C9_LastWriteWins ==
  Answered /\ up.status = 200 =>
    \A n \in Names : imgs[n] = LastContent(up.batch, n, imgs0[n])

\* An accepted upload replaced a stored file by one of another content.
C9_Witness ==
  /\ Answered
  /\ up.status = 200
  /\ \E n \in Names : imgs0[n] # None /\ imgs[n] # imgs0[n]

(***************************************************************************)
(* C7: with the N qualifying files sorted newest first and the page p and  *)
(* limit L the handler derived, the images of the answer are the elements  *)
(* of the sorted list at the indices of [(p-1)*L, (p-1)*L + L) that lie in *)
(* [0, N), totalPages is ceil(N / L), and a page outside 1..totalPages,    *)
(* negative ones included, has no images; the status is 200.               *)
(***************************************************************************)
C7_Pagination ==
  lresp.status = 200 =>
    LET sorted == SortedFiles(dir)
        N == Len(sorted)
        p == lresp.currentPage
        L == lresp.pageSize
        lo == (p - 1) * L
        hi == lo + L
        first == IF lo < 0 THEN 0 ELSE lo
        last == IF hi > N THEN N ELSE hi
    IN /\ lresp.images = SubSeq(sorted, first + 1, last)
       /\ L > 0 => lresp.totalPages * L >= N /\ (lresp.totalPages - 1) * L < N
       /\ p \notin 1..lresp.totalPages => lresp.images = <<>>

====
